---- MODULE Spec2Model ----
(***************************************************************************)
(* A model of the theme composition engine (ggplot/themes/theme.py) and of *)
(* the facet layout engine (ggplotx/facets/facet.py).                      *)
(*                                                                         *)
(* Themes and plots are heap objects: `themes` and `plots` are sequences   *)
(* whose indices are the object identities, so that returning an operand   *)
(* itself (an alias) and returning a deep copy are different outcomes.     *)
(* Objects that become unreachable inside one call (the copy of a plot's   *)
(* theme that is replaced at once, the theme(kwargs) temporary of        *)
(* theme_update) are not kept on the heap.                                 *)
(***************************************************************************)
EXTENDS Integers, Sequences, FiniteSets, TLC

VARIABLES
    themes,         \* heap of theme objects, identity = index
    explicit,       \* history: per theme, the scalar names set explicitly
    plots,          \* heap of plot objects: [theme, facet], 0 = None
    current_theme,  \* ggplot_options['current_theme'], 0 = None
    last,           \* the last call: operation, operands, result, error
    steps,          \* calls made so far
    facet,          \* the facet object: its configuration and bindings
    figure,         \* the renderer's figure: surfaces made and deleted
    fcall           \* the last call on the facet: arguments, result, error

tvars == <<themes, explicit, plots, current_theme, last, steps>>
fvars == <<facet, figure, fcall>>
vars == <<themes, explicit, plots, current_theme, last, steps,
          facet, figure, fcall>>

---------------------------------------------------------------------------
(* Bounds *)

\* calls made in one run
MaxSteps == 2
\* themeable entries a theme list may be grown to by caller mutation
MaxLen == 2
\* rows and columns of a facet grid
MaxDim == 2
\* faceting variables on one strip
MaxVars == 1
\* text lines asked of strip_size
MaxLines == 2

\* value of a field that was not set (None)
Unset == 0
\* a reference to no object (None)
None == 0

Keys == {"axis_text_x", "strip_text_x", "strip_text_y"}
Fields == {"size", "color"}
ScalarNames == {"legend_position"}
Vals == {1, 2}
\* the explicit values constructor calls draw from
CtorVals == {1}

---------------------------------------------------------------------------
(* themeable.py is not among the sources: the registry is modelled from    *)
(* the specification (sections 3 and 4.2).                                 *)

\* the scalar parameter names with their default values
scalar_themeables == [n \in ScalarNames |-> Unset]

\* a typed themeable entry from a keyword name and its payload
make_themeable(name, element) == [name |-> name, props |-> element, ref |-> None]

\* field by field: b's explicitly set fields overwrite a's, unset ones inherit
merge_props(pa, pb) ==
    [f \in Fields |-> IF pb[f] # Unset THEN pb[f] ELSE pa[f]]

\* the position of key k in entries, 0 when absent
RECURSIVE IndexOf(_, _, _)
IndexOf(entries, k, i) ==
    IF i > Len(entries) THEN 0
    ELSE IF entries[i].name = k THEN i
    ELSE IndexOf(entries, k, i + 1)

\* one entry of b merged into a: combined in place on a key a has, else appended
merge_one(a, e) ==
    LET i == IndexOf(a, e.name, 1)
    IN  IF i = 0 THEN Append(a, e)
        ELSE [a EXCEPT ![i] = [@ EXCEPT !.props = merge_props(@, e.props)]]

RECURSIVE merge_from(_, _, _)
merge_from(a, b, i) ==
    IF i > Len(b) THEN a ELSE merge_from(merge_one(a, b[i]), b, i + 1)

merge_themeables(th1, th2) == merge_from(th1, th2, 1)

\* the style options an entry contributes: one option per explicitly set field
themeable_rcParams(e) ==
    {<<e.name, f, e.props[f]>> : f \in {g \in Fields : e.props[g] # Unset}}

\* dict.update on option triples <<name, field, value>>: later keys overwrite
rc_update(rc, more) ==
    {o \in rc : ~ \E m \in more : m[1] = o[1] /\ m[2] = o[2]} \cup more

\* the builtin complete default theme, theme_gray()
rc_gray == {<<"font", "size", 1>>}
theme_gray ==
    [themeables |-> <<>>, complete |-> TRUE, _rcParams |-> rc_gray,
     _params |-> scalar_themeables]

---------------------------------------------------------------------------
(* theme.py *)

\* dict.update: every key of the right map overwrites the left one's
dict_update(d, o) ==
    [n \in DOMAIN d |-> IF n \in DOMAIN o THEN o[n] ELSE d[n]]

\* the keyword arguments of a constructor call: themeables in keyword order
\* and the scalar names passed, each with an explicit value
PayloadSet(vals) ==
    [Fields -> vals \cup {Unset}] \ {[f \in Fields |-> Unset]}
CtorEntries ==
    {make_themeable("axis_text_x", [size |-> 1, color |-> Unset]),
     make_themeable("strip_text_x", [size |-> Unset, color |-> 1])}
ThemeableKwargs == {<<>>} \cup {<<e>> : e \in CtorEntries}
ScalarKwargs ==
    UNION {[S -> CtorVals] : S \in SUBSET ScalarNames}

\* theme.__init__(complete, kwargs)
__init__(complete, th, sc) ==
    [themeables |-> th, complete |-> complete, _rcParams |-> {},
     _params |-> dict_update(scalar_themeables, sc)]

\* the rcParams property: the base options updated by every entry in order
RECURSIVE rc_fold(_, _, _)
rc_fold(rc, entries, i) ==
    IF i > Len(entries) THEN rc
    ELSE rc_fold(rc_update(rc, themeable_rcParams(entries[i])), entries, i + 1)

rcParams(t) == rc_fold(t._rcParams, t.themeables, 1)

\* deepcopy of a theme: the contents of the copy, equal to the original's;
\* the copy is a new object once it is put on the heap
deepcopy(t) ==
    [themeables |-> t.themeables, complete |-> t.complete,
     _rcParams |-> t._rcParams, _params |-> t._params]

\* add_theme without the test of other.complete
add_theme_no_complete(ths, self, other) ==
    LET theme_copy == deepcopy(ths[self])
        merged == [theme_copy EXCEPT
                     !.themeables = merge_themeables(
                         deepcopy(ths[self]).themeables,
                         deepcopy(ths[other]).themeables),
                     !._params = dict_update(@, ths[other]._params)]
    IN  [themes |-> Append(ths, merged), res |-> Len(ths) + 1]

\* add_theme returning the copy of self without merging other's entries
add_theme_no_merge(ths, self, other) ==
    IF ths[other].complete
    THEN [themes |-> ths, res |-> other]
    ELSE LET theme_copy == deepcopy(ths[self])
             merged == [theme_copy EXCEPT
                          !._params = dict_update(@, ths[other]._params)]
         IN  [themes |-> Append(ths, merged), res |-> Len(ths) + 1]

\* add_theme working on self itself instead of a deep copy
add_theme_inplace(ths, self, other) ==
    IF ths[other].complete
    THEN [themes |-> ths, res |-> other]
    ELSE LET merged == [ths[self] EXCEPT
                          !.themeables = merge_themeables(
                              ths[self].themeables, ths[other].themeables),
                          !._params = dict_update(@, ths[other]._params)]
         IN  [themes |-> [ths EXCEPT ![self] = merged], res |-> self]

\* add_theme merging self's entries into other's
add_theme_swapped(ths, self, other) ==
    IF ths[other].complete
    THEN [themes |-> ths, res |-> other]
    ELSE LET theme_copy == deepcopy(ths[self])
             merged == [theme_copy EXCEPT
                          !.themeables = merge_themeables(
                              deepcopy(ths[other]).themeables,
                              deepcopy(ths[self]).themeables),
                          !._params = dict_update(@, ths[other]._params)]
         IN  [themes |-> Append(ths, merged), res |-> Len(ths) + 1]

\* theme.add_theme: [themes, res] the heap after the call and the result
add_theme(ths, self, other) ==
    IF ths[other].complete
    THEN [themes |-> ths, res |-> other]
    ELSE LET theme_copy == deepcopy(ths[self])
             merged == [theme_copy EXCEPT
                          !.themeables = merge_themeables(
                              deepcopy(ths[self]).themeables,
                              deepcopy(ths[other]).themeables),
                          !._params = dict_update(@, ths[other]._params)]
         IN  [themes |-> Append(ths, merged), res |-> Len(ths) + 1]

\* theme.__add__: the error kind raised, or the result of add_theme.
\* ("..", "..").format is a call on a tuple: it raises AttributeError
\* before the GgplotError is built.
__add__(ths, self, other, other_is_theme) ==
    IF ~ other_is_theme
    THEN [themes |-> ths, res |-> None, err |-> "AttributeError"]
    ELSE [themes |-> add_theme(ths, self, other).themes,
          res |-> add_theme(ths, self, other).res, err |-> "none"]

\* theme_get: the registered theme itself, or a new theme_gray()
theme_get(ths, cur) ==
    IF cur # None THEN [themes |-> ths, res |-> cur]
    ELSE [themes |-> Append(ths, theme_gray), res |-> Len(ths) + 1]

\* theme.__radd__ with a plot on the left: [themes, plots, res], the new plot
\* res is a deep copy of gg whose theme is self (complete) or the plot's
\* theme, else the default theme, combined with self
__radd__(ths, pls, cur, self, gg) ==
    IF ths[self].complete
    THEN [themes |-> ths,
          plots |-> Append(pls, [pls[gg] EXCEPT !.theme = self]),
          res |-> Len(pls) + 1]
    ELSE LET n == Len(ths)
             \* gg_copy.theme or theme_get(): the copy of the plot's theme,
             \* the registered theme itself, or a new theme_gray()
             h1 == IF pls[gg].theme # None
                   THEN Append(ths, deepcopy(ths[pls[gg].theme]))
                   ELSE theme_get(ths, cur).themes
             base == IF pls[gg].theme # None THEN n + 1
                     ELSE theme_get(ths, cur).res
             r == add_theme(h1, base, self)
             kept == SubSeq(r.themes, 1, n)
         IN  IF r.res <= n
             THEN [themes |-> kept,
                   plots |-> Append(pls, [pls[gg] EXCEPT !.theme = r.res]),
                   res |-> Len(pls) + 1]
             ELSE [themes |-> Append(kept, r.themes[r.res]),
                   plots |-> Append(pls, [pls[gg] EXCEPT !.theme = n + 1]),
                   res |-> Len(pls) + 1]

\* theme.__radd__ called with a theme on the left (other + self)
radd_theme(ths, self, other) ==
    IF ths[self].complete
    THEN [themes |-> ths, res |-> self]
    ELSE LET theme_copy == deepcopy(ths[other])
         IN  [themes |-> Append(ths,
                  [theme_copy EXCEPT
                     !.themeables = Append(@,
                         [name |-> "theme", props |-> [f \in Fields |-> Unset],
                          ref |-> self]),
                     !._params = dict_update(@, ths[other]._params)]),
              res |-> Len(ths) + 1]

\* theme_set: the previous registry slot is returned as it is stored
theme_set(cur, new, new_is_theme) ==
    IF ~ new_is_theme
    THEN [current_theme |-> cur, out |-> None, err |-> "GgplotError"]
    ELSE [current_theme |-> new, out |-> cur, err |-> "none"]

\* theme_update(kwargs): theme_set(theme_get() + theme(kwargs)); of the
\* objects it makes only the sum stays reachable, as the new registry slot
theme_update(ths, cur, complete, th, sc) ==
    LET n == Len(ths)
        g == theme_get(ths, cur)
        h1 == Append(g.themes, __init__(complete, th, sc))
        r == __add__(h1, g.res, Len(h1), TRUE)
        kept == SubSeq(r.themes, 1, n)
    IN  IF r.res <= n
        THEN [themes |-> kept,
              current_theme |-> theme_set(cur, r.res, TRUE).current_theme]
        ELSE [themes |-> Append(kept, r.themes[r.res]),
              current_theme |-> theme_set(cur, n + 1, TRUE).current_theme]

---------------------------------------------------------------------------
(* facet.py: composition *)

\* the facet objects a plot can be given
Facets == {1}

\* deepcopy of a plot: its theme, when it has one, is copied with it
deepcopy_plot(ths, pls, gg) ==
    IF pls[gg].theme = None
    THEN [themes |-> ths, plots |-> Append(pls, pls[gg]), res |-> Len(pls) + 1]
    ELSE [themes |-> Append(ths, deepcopy(ths[pls[gg].theme])),
          plots |-> Append(pls, [pls[gg] EXCEPT !.theme = Len(ths) + 1]),
          res |-> Len(pls) + 1]

\* facet.__radd__(gg, inplace)
facet__radd__(ths, pls, self, gg, inplace) ==
    IF inplace
    THEN [themes |-> ths, plots |-> [pls EXCEPT ![gg].facet = self], res |-> gg]
    ELSE LET c == deepcopy_plot(ths, pls, gg)
         IN  [themes |-> c.themes,
              plots |-> [c.plots EXCEPT ![c.res].facet = self],
              res |-> c.res]

---------------------------------------------------------------------------
(* facet.py: layout.  Surfaces are numbered 1..nrow*ncol in row-major     *)
(* order of the grid plt.subplots makes.  Lengths are whole hundredths of  *)
(* a point; an inch is 7227 of them, so a breadth in hundredths of a point *)
(* is the breadth in inches times 72.27 times 100.                         *)

\* hundredths of a point in a point and in an inch (dpi = 72.27)
PT == 100
DPI == 7227

\* an option the renderer's rcParams do not hold
Absent == -1

\* numpy arrays of surfaces: [ndim, data], data a surface (ndim 0), a
\* sequence (ndim 1) or a sequence of rows (ndim 2)
Reversed(seq) == [i \in 1..Len(seq) |-> seq[Len(seq) - i + 1]]

RECURSIVE Flatten(_, _)
Flatten(rows, i) ==
    IF i > Len(rows) THEN <<>> ELSE rows[i] \o Flatten(rows, i + 1)

\* plt.subplots(nrow, ncol) with squeeze=True, then np.asarray: one surface
\* alone is a 0-d array, one row or one column a 1-d array
subplots(nrow, ncol) ==
    IF nrow = 1 /\ ncol = 1 THEN [ndim |-> 0, data |-> 1]
    ELSE IF nrow = 1 \/ ncol = 1
    THEN [ndim |-> 1, data |-> [i \in 1..(nrow * ncol) |-> i]]
    ELSE [ndim |-> 2,
          data |-> [r \in 1..nrow |-> [c \in 1..ncol |-> (r - 1) * ncol + c]]]

\* ndarray.ravel(order)
ravel(a, order) ==
    IF a.ndim = 0 THEN <<a.data>>
    ELSE IF a.ndim = 1 THEN a.data
    ELSE IF order = "C" THEN Flatten(a.data, 1)
    ELSE LET R == Len(a.data)
             C == Len(a.data[1])
         IN  [k \in 1..(R * C) |-> a.data[((k - 1) % R) + 1][((k - 1) \div R) + 1]]

\* axs[::-1]: the first axis reversed; a 0-d array cannot be indexed
reverse(a) ==
    IF a.ndim = 0 THEN [err |-> "IndexError", arr |-> a]
    ELSE [err |-> "none", arr |-> [a EXCEPT !.data = Reversed(a.data)]]

\* seq[n:] and seq[:n] for 0 <= n
SliceFrom(seq, n) == SubSeq(seq, n + 1, Len(seq))
SliceTo(seq, n) == SubSeq(seq, 1, IF n < Len(seq) THEN n ELSE Len(seq))

\* facet.make_figure_and_axs: [facet, figure, err] after the call with
\* num_panels = len(panel.layout), 0 <= num_panels <= nrow * ncol
make_figure_and_axs(self, num_panels, theme) ==
    LET axs0 == subplots(self.nrow, self.ncol)
        flat == ravel(axs0, "C")
        fig0 == [surfaces |-> {flat[i] : i \in 1..Len(flat)}, deleted |-> <<>>,
                 ticks |-> <<>>]
        self1 == [self EXCEPT
                    !.first_ax = flat[1],
                    !.last_ax = flat[IF num_panels = 0 THEN Len(flat)
                                     ELSE num_panels]]
        rev == IF ~ self.as_table THEN reverse(axs0)
               ELSE [err |-> "none", arr |-> axs0]
        order == IF self.dir = "h" THEN "C" ELSE "F"
        axs == ravel(rev.arr, order)
    IN  IF rev.err # "none"
        THEN [facet |-> self1, figure |-> fig0, err |-> rev.err]
        ELSE [facet |-> [self1 EXCEPT !.axs = SliceTo(axs, num_panels),
                                      !.theme = theme,
                                      !.bound = TRUE],
              figure |-> [fig0 EXCEPT !.deleted = SliceFrom(axs, num_panels)],
              err |-> "none"]

\* theme.themeables.property(name, field): [found, value], found FALSE on
\* a miss (KeyError)
property(theme, name, field) ==
    IF \E o \in theme.props : o[1] = name /\ o[2] = field
    THEN [found |-> TRUE,
          value |-> (CHOOSE o \in theme.props : o[1] = name /\ o[2] = field)[3]]
    ELSE [found |-> FALSE, value |-> 0]

\* margin.get_as(side, 'pt')
get_as(margin, side) ==
    IF margin.units = "pt" THEN margin[side] * PT ELSE margin[side] * DPI

\* inner_strip_margins without the fallback of 3 pt on a lookup miss
inner_strip_margins_no_default(self, location) ==
    LET strip_name == IF location = "right" THEN "strip_text_y"
                      ELSE "strip_text_x"
        side1 == IF location = "right" THEN "l" ELSE "t"
        side2 == IF location = "right" THEN "r" ELSE "b"
        margin == property(self.theme, strip_name, "margin")
    IN  IF ~ margin.found THEN <<0, 0>>
        ELSE <<get_as(margin.value, side1), get_as(margin.value, side2)>>

\* facet.inner_strip_margins: <<m1, m2>> in hundredths of a point
inner_strip_margins(self, location) ==
    LET strip_name == IF location = "right" THEN "strip_text_y"
                      ELSE "strip_text_x"
        side1 == IF location = "right" THEN "l" ELSE "t"
        side2 == IF location = "right" THEN "r" ELSE "b"
        margin == property(self.theme, strip_name, "margin")
    IN  IF ~ margin.found THEN <<3 * PT, 3 * PT>>
        ELSE <<get_as(margin.value, side1), get_as(margin.value, side2)>>

\* facet.strip_size(location, num_lines): the breadth in inches, given
\* times DPI; num_lines = NoLines is the default None
NoLines == -1
strip_size(self, location, num_lines) ==
    LET strip_name == IF location = "right" THEN "strip_text_y"
                      ELSE "strip_text_x"
        \* num_lines or self.num_vars: None and 0 both give way
        lines == IF num_lines = NoLines \/ num_lines = 0
                 THEN (IF location = "right" THEN self.num_vars_y
                       ELSE self.num_vars_x)
                 ELSE num_lines
        size == property(self.theme, strip_name, "size")
        fontsize == IF size.found THEN size.value
                    ELSE IF self.theme.font_size # Absent
                    THEN self.theme.font_size ELSE 10
        spacing == property(self.theme, strip_name, "linespacing")
        linespacing == IF spacing.found THEN spacing.value ELSE 1
        m == inner_strip_margins(self, location)
    IN  IF lines = 0 THEN 0
        ELSE (linespacing * fontsize) * lines * PT + (m[1] + m[2])

\* fractions n/d with d > 0, kept in lowest terms
RECURSIVE GCD(_, _)
GCD(a, b) == IF b = 0 THEN a ELSE GCD(b, a % b)
Abs(a) == IF a < 0 THEN 0 - a ELSE a
Rat(n, d) ==
    LET g == GCD(Abs(n), d) IN [n |-> n \div g, d |-> d \div g]
Whole(k) == [n |-> k, d |-> 1]
RAdd(a, b) == Rat(a.n * b.d + b.n * a.d, a.d * b.d)
RMul(a, b) == Rat(a.n * b.n, a.d * b.d)
\* a / b for b > 0
RDiv(a, b) == Rat(a.n * b.d, a.d * b.n)

\* facet.set_breaks_and_labels(ranges, layout_info, pidx): the limits, the
\* breaks and the labels of ranges and the tick padding (hundredths of a
\* point) are set on the panel's surface
set_breaks_and_labels(self, fig, ranges, pidx) ==
    LET ax == self.axs[pidx + 1]
        mx == property(self.theme, "axis_text_x", "margin")
        pad_x == IF ~ mx.found THEN (24 * PT) \div 10
                 ELSE get_as(mx.value, "t")
        my == property(self.theme, "axis_text_y", "margin")
        pad_y == IF ~ my.found THEN (24 * PT) \div 10
                 ELSE get_as(my.value, "r")
        set == [ranges |-> ranges, pad_x |-> pad_x, pad_y |-> pad_y]
    IN  [figure |-> [fig EXCEPT !.ticks =
                       [a \in DOMAIN @ \cup {ax} |->
                          IF a = ax THEN set ELSE @[a]]],
         err |-> "none"]

\* facet.strip_dimensions(text_lines, location, pid): the text position and
\* the background box in axes fractions; num_lines = len(text_lines), the
\* panel's extent ax_width x ax_height in inches comes from the renderer
strip_dimensions(self, num_lines, location, pid, ax_width, ax_height) ==
    LET size == Rat(strip_size(self, location, num_lines), DPI)
        m == inner_strip_margins(self, location)
        m1 == Rat(m[1], DPI)
        m2 == Rat(m[2], DPI)
        bg == IF location = "right" THEN "strip_background_y"
              ELSE "strip_background_x"
        pos == property(self.theme, bg, IF location = "right" THEN "y" ELSE "x")
        ext == property(self.theme, bg,
                        IF location = "right" THEN "height" ELSE "width")
        mg == property(self.theme,
                       IF location = "right" THEN "strip_margin_y"
                       ELSE "strip_margin_x", "value")
        margin == IF mg.found THEN mg.value ELSE Whole(0)
        half == [n |-> 1, d |-> 2]
    IN  IF location = "right"
        THEN LET w == Whole(ax_width)
                 box_y == IF pos.found THEN pos.value ELSE Whole(0)
                 box_height == IF ext.found THEN ext.value ELSE Whole(1)
                 x == RAdd(Whole(1),
                           RDiv(RAdd(RAdd(size, RMul(Whole(-1), m2)), m1),
                                RMul(Whole(2), w)))
                 y == RMul(RAdd(RMul(Whole(2), box_y), box_height), half)
                 hslide == RAdd(Whole(1), RDiv(RMul(margin, size), w))
             IN  [x |-> RMul(x, hslide), y |-> y,
                  box_x |-> RMul(Whole(1), hslide), box_y |-> box_y,
                  box_width |-> RDiv(size, w), box_height |-> box_height,
                  err |-> "none"]
        ELSE LET h == Whole(ax_height)
                 box_x == IF pos.found THEN pos.value ELSE Whole(0)
                 box_width == IF ext.found THEN ext.value ELSE Whole(1)
                 x == RMul(RAdd(RMul(Whole(2), box_x), box_width), half)
                 y == RAdd(Whole(1),
                           RDiv(RAdd(RAdd(size, RMul(Whole(-1), m1)), m2),
                                RMul(Whole(2), h)))
                 vslide == RAdd(Whole(1), RDiv(RMul(margin, size), h))
             IN  [x |-> x, y |-> RMul(y, vslide),
                  box_x |-> box_x, box_y |-> RMul(Whole(1), vslide),
                  box_width |-> box_width, box_height |-> RDiv(size, h),
                  err |-> "none"]

\* the facet object before any draw pass, with the class attributes
NoFTheme == [props |-> {}, font_size |-> Absent]
NoFigure == [surfaces |-> {}, deleted |-> <<>>, ticks |-> <<>>]
NoFCall == [op |-> "init", location |-> "top", num_lines |-> NoLines,
            num_panels |-> 0, pid |-> 0, ax_size |-> <<0, 0>>, ret |-> 0,
            err |-> "none"]
NoFacet ==
    [nrow |-> 1, ncol |-> 1, as_table |-> TRUE, dir |-> "h",
     num_vars_x |-> 0, num_vars_y |-> 0, theme |-> NoFTheme, axs |-> <<>>,
     first_ax |-> None, last_ax |-> None, bound |-> FALSE]

\* no facet is drawn
NoFacetRun == facet = NoFacet /\ figure = NoFigure /\ fcall = NoFCall

---------------------------------------------------------------------------
(* The record of the last call *)

NoTheme == [themeables |-> <<>>, complete |-> FALSE, _rcParams |-> {},
            _params |-> scalar_themeables]
NoPlot == [theme |-> None, facet |-> None]

NoCall ==
    [op |-> "init", lhs |-> None, rhs |-> None, res |-> None, err |-> "none",
     pre_themes |-> <<>>, pre_plots |-> <<>>, pre_cur |-> None]

\* the call record of operation op made in the current state
Call(op, lhs, rhs, res, err) ==
    [op |-> op, lhs |-> lhs, rhs |-> rhs, res |-> res, err |-> err,
     pre_themes |-> themes, pre_plots |-> plots, pre_cur |-> current_theme]

Ids == 1..Len(themes)
PlotIds == 1..Len(plots)

\* the history of explicitly set names follows the heap: a new object made
\* from a and b has what either set
Grown(new_themes, a, b) ==
    IF Len(new_themes) > Len(themes)
    THEN Append(explicit, (IF a = None THEN {} ELSE explicit[a])
                          \cup (IF b = None THEN {} ELSE explicit[b]))
    ELSE explicit

\* the themes a caller constructs: theme(complete, kwargs)
CtorThemes ==
    {__init__(c, th, sc) :
       c \in BOOLEAN, th \in ThemeableKwargs, sc \in ScalarKwargs}

\* the scalar names a constructed theme was given
Passed(t) == {n \in ScalarNames : t._params[n] # scalar_themeables[n]}

\* two themes made by the constructor, a plot without theme or facet, and
\* the registry empty or holding the first theme
InitThemes ==
    /\ \E a \in CtorThemes, b \in CtorThemes :
         /\ themes = <<a, b>>
         /\ explicit = <<Passed(a), Passed(b)>>
    /\ plots = <<NoPlot>>
    /\ current_theme \in {None, 1}
    /\ last = NoCall
    /\ steps = 0
    /\ NoFacetRun

Init == InitThemes

Step == steps < MaxSteps /\ steps' = steps + 1 /\ UNCHANGED fvars

\* a + b between two themes
AddTheme ==
    /\ Step
    /\ \E a \in Ids, b \in Ids :
         LET r == __add__(themes, a, b, TRUE)
         IN  /\ themes' = r.themes
             /\ explicit' = Grown(r.themes, a, b)
             /\ last' = Call("add", a, b, r.res, r.err)
             /\ UNCHANGED <<plots, current_theme>>

\* a + x where x is not a theme
AddInvalid ==
    /\ Step
    /\ \E a \in Ids :
         LET r == __add__(themes, a, None, FALSE)
         IN  /\ themes' = r.themes
             /\ last' = Call("add_invalid", a, None, r.res, r.err)
             /\ UNCHANGED <<explicit, plots, current_theme>>

\* b.__radd__(a) between two themes
RaddTheme ==
    /\ Step
    /\ \E a \in Ids, b \in Ids :
         LET r == radd_theme(themes, b, a)
         IN  /\ themes' = r.themes
             /\ explicit' = Grown(r.themes, a, None)
             /\ last' = Call("radd", a, b, r.res, "none")
             /\ UNCHANGED <<plots, current_theme>>

\* gg + t: a plot and a theme
PlotAddTheme ==
    /\ Step
    /\ \E gg \in PlotIds, t \in Ids :
         LET r == __radd__(themes, plots, current_theme, t, gg)
         IN  /\ themes' = r.themes
             /\ plots' = r.plots
             /\ explicit' = Grown(r.themes,
                                  IF plots[gg].theme # None THEN plots[gg].theme
                                  ELSE current_theme, t)
             /\ last' = Call("plot_add_theme", gg, t, r.res, "none")
             /\ UNCHANGED current_theme

\* gg + f: a plot and a facet
PlotAddFacet ==
    /\ Step
    /\ \E gg \in PlotIds, f \in Facets :
         LET r == facet__radd__(themes, plots, f, gg, FALSE)
         IN  /\ themes' = r.themes
             /\ plots' = r.plots
             /\ explicit' = Grown(r.themes, plots[gg].theme, None)
             /\ last' = Call("plot_add_facet", gg, f, r.res, "none")
             /\ UNCHANGED current_theme

\* f.__radd__(gg, inplace=True)
FacetInplace ==
    /\ Step
    /\ \E gg \in PlotIds, f \in Facets :
         LET r == facet__radd__(themes, plots, f, gg, TRUE)
         IN  /\ plots' = r.plots
             /\ last' = Call("facet_inplace", gg, f, r.res, "none")
             /\ UNCHANGED <<themes, explicit, current_theme>>

\* theme_get()
ThemeGet ==
    /\ Step
    /\ LET r == theme_get(themes, current_theme)
       IN  /\ themes' = r.themes
           /\ explicit' = Grown(r.themes, None, None)
           /\ last' = Call("theme_get", None, None, r.res, "none")
           /\ UNCHANGED <<plots, current_theme>>

\* theme_set(new) with a theme
ThemeSet ==
    /\ Step
    /\ \E new \in Ids :
         LET r == theme_set(current_theme, new, TRUE)
         IN  /\ current_theme' = r.current_theme
             /\ last' = Call("theme_set", new, None, r.out, r.err)
             /\ UNCHANGED <<themes, explicit, plots>>

\* theme_set(x) where x is not a theme
ThemeSetInvalid ==
    /\ Step
    /\ LET r == theme_set(current_theme, None, FALSE)
       IN  /\ current_theme' = r.current_theme
           /\ last' = Call("theme_set_invalid", None, None, r.out, r.err)
           /\ UNCHANGED <<themes, explicit, plots>>

\* theme_update(kwargs)
ThemeUpdate ==
    /\ Step
    /\ \E c \in BOOLEAN, th \in ThemeableKwargs, sc \in ScalarKwargs :
         LET r == theme_update(themes, current_theme, c, th, sc)
         IN  /\ themes' = r.themes
             /\ current_theme' = r.current_theme
             /\ explicit' = IF Len(r.themes) > Len(themes)
                            THEN Append(explicit,
                                   (IF current_theme = None \/ c THEN {}
                                    ELSE explicit[current_theme])
                                   \cup DOMAIN sc)
                            ELSE explicit
             /\ last' = Call("theme_update", None, None, None, "none")
             /\ UNCHANGED plots

\* the caller changes a theme it holds: t._params[n] = v, or
\* t.themeables.append(e)
Mutate ==
    /\ Step
    /\ \E t \in Ids :
         /\ \/ \E n \in ScalarNames, v \in Vals :
                 /\ themes[t]._params[n] # v
                 /\ themes' = [themes EXCEPT ![t]._params[n] = v]
                 /\ explicit' = [explicit EXCEPT ![t] = @ \cup {n}]
            \/ \E e \in CtorEntries :
                 /\ Len(themes[t].themeables) < MaxLen
                 /\ themes' = [themes EXCEPT ![t].themeables = Append(@, e)]
                 /\ UNCHANGED explicit
         /\ last' = Call("mutate", t, None, None, "none")
    /\ UNCHANGED <<plots, current_theme>>

\* the composition operators
Next ==
    \/ AddTheme
    \/ AddInvalid
    \/ RaddTheme
    \/ PlotAddTheme
    \/ PlotAddFacet
    \/ FacetInplace

Spec == Init /\ [][Next]_vars

\* the default-theme registry
NextRegistry ==
    \/ ThemeGet
    \/ ThemeSet
    \/ ThemeSetInvalid
    \/ ThemeUpdate
    \/ AddTheme

SpecRegistry == Init /\ [][NextRegistry]_vars

\* compositions followed by changes the caller makes to its own themes
NextAlias ==
    \/ AddTheme
    \/ PlotAddTheme
    \/ Mutate

SpecAlias == Init /\ [][NextAlias]_vars

---------------------------------------------------------------------------
(* Chained addition of three partial themes: (a + b) + c *)

\* the themeable keyword arguments of operand w: up to two entries on
\* distinct keys, every field that is set carrying the operand's own value w
ChainPayloads(w) == PayloadSet({w})
ChainKwargs(w) ==
    {<<>>}
    \cup {<<make_themeable(k, p)>> : k \in Keys, p \in ChainPayloads(w)}
    \cup {<<make_themeable(kk[1], p1), make_themeable(kk[2], p2)>> :
            kk \in {q \in Keys \X Keys : q[1] # q[2]},
            p1 \in ChainPayloads(w), p2 \in ChainPayloads(w)}
ChainThemes(w) == {__init__(FALSE, th, <<>>) : th \in ChainKwargs(w)}

InitChain ==
    /\ \E a \in ChainThemes(1), b \in ChainThemes(2), c \in ChainThemes(3) :
         themes = <<a, b, c>>
    /\ explicit = <<{}, {}, {}>>
    /\ plots = <<NoPlot>>
    /\ current_theme = None
    /\ last = NoCall
    /\ steps = 0
    /\ NoFacetRun

\* first a + b, then the sum + c
ChainAdd ==
    /\ steps < 2
    /\ steps' = steps + 1
    /\ UNCHANGED fvars
    /\ LET a == IF steps = 0 THEN 1 ELSE last.res
           b == IF steps = 0 THEN 2 ELSE 3
           r == __add__(themes, a, b, TRUE)
       IN  /\ themes' = r.themes
           /\ explicit' = Grown(r.themes, a, b)
           /\ last' = Call("add", a, b, r.res, r.err)
    /\ UNCHANGED <<plots, current_theme>>

SpecChain == InitChain /\ [][ChainAdd]_vars

---------------------------------------------------------------------------
(* One draw pass of a facet *)

\* the themes a draw pass is given: what their registry answers for the
\* strip text of both strips, and the renderer's base font size
StripMargin == [t |-> 1, b |-> 2, l |-> 4, r |-> 5, units |-> "pt"]
StripProps(name) ==
    {<<name, "size", 12>>, <<name, "linespacing", 2>>,
     <<name, "margin", StripMargin>>}
AxisMargin == [t |-> 5, b |-> 0, l |-> 0, r |-> 6, units |-> "pt"]
\* the background box and the strip margin of one strip direction
BoxProps(pos, ext) ==
    {<<"strip_background_" \o pos, pos, [n |-> 1, d |-> 4]>>,
     <<"strip_background_" \o pos, ext, [n |-> 1, d |-> 2]>>,
     <<"strip_margin_" \o pos, "value", Whole(1)>>}
FacetThemes ==
    {[props |-> StripProps("strip_text_x") \cup StripProps("strip_text_y"),
      font_size |-> 11],
     [props |-> StripProps("strip_text_x"), font_size |-> 11],
     [props |-> {<<"strip_text_y", "size", 12>>}, font_size |-> Absent],
     [props |-> {}, font_size |-> 11],
     [props |-> {}, font_size |-> Absent],
     [props |-> StripProps("strip_text_x") \cup StripProps("strip_text_y")
                  \cup BoxProps("x", "width") \cup BoxProps("y", "height")
                  \cup {<<"axis_text_x", "margin", AxisMargin>>,
                        <<"axis_text_y", "margin", AxisMargin>>},
      font_size |-> 11],
     [props |-> {<<"axis_text_x", "size", 9>>,
                 <<"axis_text_y", "margin", AxisMargin>>,
                 <<"strip_background_x", "width", [n |-> 1, d |-> 2]>>,
                 <<"strip_margin_y", "value", Whole(1)>>},
      font_size |-> Absent]}

\* a facet as its constructor and its subclass leave it, not yet bound
InitFacet ==
    /\ \E nrow \in 1..MaxDim, ncol \in 1..MaxDim, as_table \in BOOLEAN,
          dir \in {"h", "v"}, nx \in 0..MaxVars, ny \in 0..MaxVars :
         facet = [NoFacet EXCEPT !.nrow = nrow, !.ncol = ncol,
                                 !.as_table = as_table, !.dir = dir,
                                 !.num_vars_x = nx, !.num_vars_y = ny]
    /\ figure = NoFigure
    /\ fcall = NoFCall
    /\ themes = <<>>
    /\ explicit = <<>>
    /\ plots = <<NoPlot>>
    /\ current_theme = None
    /\ last = NoCall
    /\ steps = 0

\* facet.make_figure_and_axs(panel, theme, coordinates)
MakeFigureAndAxs ==
    /\ \E n \in 0..(facet.nrow * facet.ncol), th \in FacetThemes :
         LET r == make_figure_and_axs(facet, n, th)
         IN  /\ facet' = r.facet
             /\ figure' = r.figure
             /\ fcall' = [NoFCall EXCEPT !.op = "make_figure_and_axs",
                                        !.num_panels = n, !.err = r.err]
    /\ UNCHANGED tvars

\* facet.strip_size(location, num_lines) on a bound facet
StripSize ==
    /\ facet.bound
    /\ \E location \in {"top", "right"}, k \in {NoLines} \cup 0..MaxLines :
         fcall' = [NoFCall EXCEPT !.op = "strip_size", !.location = location,
                                  !.num_lines = k,
                                  !.num_panels = fcall.num_panels,
                                  !.ret = strip_size(facet, location, k)]
    /\ UNCHANGED <<facet, figure>>
    /\ UNCHANGED tvars

NextFacet ==
    \/ MakeFigureAndAxs
    \/ StripSize

SpecFacet == InitFacet /\ [][NextFacet]_vars

\* the geometry descriptions handed to set_breaks_and_labels and the panel
\* extents (width, height, in inches) the renderer reports
Ranges == {1}
AxSizes == {<<2, 3>>, <<3, 2>>}

\* facet.set_breaks_and_labels(ranges, layout_info, pidx) on a bound panel
SetBreaksAndLabels ==
    /\ facet.bound
    /\ \E ranges \in Ranges, pidx \in 0..(Len(facet.axs) - 1) :
         LET r == set_breaks_and_labels(facet, figure, ranges, pidx)
         IN  /\ figure' = r.figure
             /\ fcall' = [NoFCall EXCEPT !.op = "set_breaks_and_labels",
                                        !.num_panels = fcall.num_panels,
                                        !.pid = pidx, !.err = r.err]
    /\ UNCHANGED facet
    /\ UNCHANGED tvars

\* facet.strip_dimensions(text_lines, location, pid) on a bound panel
StripDimensions ==
    /\ facet.bound
    /\ \E location \in {"top", "right"}, k \in 0..MaxLines,
          pid \in 0..(Len(facet.axs) - 1), sz \in AxSizes :
         LET r == strip_dimensions(facet, k, location, pid, sz[1], sz[2])
         IN  fcall' = [NoFCall EXCEPT !.op = "strip_dimensions",
                                      !.location = location,
                                      !.num_lines = k,
                                      !.num_panels = fcall.num_panels,
                                      !.pid = pid, !.ax_size = sz,
                                      !.ret = r, !.err = r.err]
    /\ UNCHANGED <<facet, figure>>
    /\ UNCHANGED tvars

\* one-row facets laid out as a table, with MaxVars faceting variables on
\* each strip: the draw pass of each panel
InitLookup ==
    /\ InitFacet
    /\ facet.nrow = 1
    /\ facet.as_table
    /\ facet.dir = "h"
    /\ facet.num_vars_x = MaxVars
    /\ facet.num_vars_y = MaxVars

NextLookup ==
    \/ MakeFigureAndAxs
    \/ SetBreaksAndLabels
    \/ StripSize
    \/ StripDimensions

SpecLookup == InitLookup /\ [][NextLookup]_vars

---------------------------------------------------------------------------
(* Properties *)

Names(entries) == [i \in 1..Len(entries) |-> entries[i].name]
HasKey(entries, k) == \E i \in 1..Len(entries) : entries[i].name = k
\* the value entries give field f of key k, Unset when they do not set it
ValueOf(entries, k, f) ==
    IF HasKey(entries, k)
    THEN entries[CHOOSE i \in 1..Len(entries) : entries[i].name = k].props[f]
    ELSE Unset
\* the names of b that a does not have, in b's order
NewNames(a, b) ==
    LET IsNew(k) == ~ HasKey(a, k) IN SelectSeq(Names(b), IsNew)
\* the later operand's value where it set the field, else the earlier one's
Later(va, vb) == IF vb # Unset THEN vb ELSE va

Pre(i) == last.pre_themes[i]
IsNewTheme(i) == i > Len(last.pre_themes) /\ i <= Len(themes)

\* C1: t + C with C complete is C itself: the same entries in the same order,
\* the same scalar parameters, completeness flag and resolved style dict
C1_CompleteRightWins ==
    (last.op \in {"add", "radd"} /\ Pre(last.rhs).complete)
    => /\ last.res = last.rhs
       /\ themes[last.res] = Pre(last.rhs)
       /\ rcParams(themes[last.res]) = rcParams(Pre(last.rhs))

C1_Witness ==
    /\ last.op = "add"
    /\ Pre(last.rhs).complete
    /\ Pre(last.lhs).themeables # <<>>
    /\ Pre(last.lhs).themeables # Pre(last.rhs).themeables
    /\ Pre(last.lhs)._params # Pre(last.rhs)._params

\* C2 as stated: C + t with C complete has exactly C's entries and C's scalar
\* parameters
C2_CompleteLeftDiscards ==
    (last.op = "add" /\ Pre(last.lhs).complete)
    => /\ themes[last.res].themeables = Pre(last.lhs).themeables
       /\ themes[last.res]._params = Pre(last.lhs)._params

\* the keys of b that a lacks, each once, in order of first appearance
RECURSIVE FirstNew(_, _, _)
FirstNew(a, b, i) ==
    IF i > Len(b) THEN <<>>
    ELSE IF HasKey(a, b[i].name) \/ \E j \in 1..(i - 1) : b[j].name = b[i].name
         THEN FirstNew(a, b, i + 1)
         ELSE <<b[i].name>> \o FirstNew(a, b, i + 1)
\* the last value the entries of key k set explicitly for field f, else Unset
LastSet(entries, k, f) ==
    LET S == {i \in 1..Len(entries) :
                entries[i].name = k /\ entries[i].props[f] # Unset}
    IN  IF S = {} THEN Unset
        ELSE entries[CHOOSE i \in S : \A j \in S : j <= i].props[f]

\* C2 amended: C + t with C complete is t itself when t is complete; when t
\* is partial it is a new complete theme with C's base options, C's entries
\* in C's order followed by the keys only t has in order of first appearance,
\* the first entry of each key taking per field the last value t set
\* explicitly and otherwise C's, and each scalar parameter t set explicitly
\* taking t's value
C2_CompleteLeftMerges ==
    (last.op = "add" /\ Pre(last.lhs).complete)
    => LET C == Pre(last.lhs)
           t == Pre(last.rhs)
           r == themes[last.res]
           nC == Len(C.themeables)
       IN  IF t.complete
           THEN last.res = last.rhs /\ r = t
           ELSE /\ IsNewTheme(last.res)
                /\ r.complete
                /\ r._rcParams = C._rcParams
                /\ Names(r.themeables)
                     = Names(C.themeables) \o FirstNew(C.themeables, t.themeables, 1)
                /\ \A i \in 1..Len(r.themeables), f \in Fields :
                     LET k == r.themeables[i].name
                         base == IF i > nC THEN Unset
                                 ELSE C.themeables[i].props[f]
                     IN  r.themeables[i].props[f]
                           = IF i <= nC /\ IndexOf(C.themeables, k, 1) # i
                             THEN base
                             ELSE Later(base, LastSet(t.themeables, k, f))
                /\ \A n \in explicit[last.rhs] : r._params[n] = t._params[n]

C2_Witness ==
    /\ last.op = "add"
    /\ Pre(last.lhs).complete
    /\ ~ Pre(last.rhs).complete
    /\ Pre(last.lhs).themeables # <<>>
    /\ NewNames(Pre(last.lhs).themeables, Pre(last.rhs).themeables) # <<>>
    /\ explicit[last.rhs] # {}
    /\ themes[last.res]._params # Pre(last.lhs)._params

\* C3: in base + other with other partial, every scalar parameter base set
\* explicitly and other was not given keeps base's value
C3_PartialKeepsBaseParams ==
    (last.op = "add" /\ ~ Pre(last.rhs).complete)
    => \A n \in explicit[last.lhs] \ explicit[last.rhs] :
         themes[last.res]._params[n] = Pre(last.lhs)._params[n]

\* C4: theme + x with x not a theme fails with GgplotError and leaves the
\* theme and the default-theme registry unchanged
C4_InvalidOperandError ==
    last.op = "add_invalid"
    => /\ last.err = "GgplotError"
       /\ themes = last.pre_themes
       /\ current_theme = last.pre_cur

\* C5: theme + theme, plot + theme and plot + facet leave every theme and
\* every plot that existed before the operation as it was
C5_OperandsUnchanged ==
    last.op \in {"add", "plot_add_theme", "plot_add_facet"}
    => /\ \A i \in 1..Len(last.pre_themes) : themes[i] = last.pre_themes[i]
       /\ \A j \in 1..Len(last.pre_plots) : plots[j] = last.pre_plots[j]

C5_Witness ==
    /\ last.op = "plot_add_theme"
    /\ last.pre_plots[last.lhs].theme # None
    /\ ~ Pre(last.rhs).complete
    /\ plots[last.res].theme # last.pre_plots[last.lhs].theme
    /\ themes[plots[last.res].theme] # Pre(last.pre_plots[last.lhs].theme)

\* the theme a composition returned, or attached to the plot it returned
ResultTheme == IF last.op = "add" THEN last.res ELSE plots[last.res].theme

\* C6: after base + other or plot + other with other complete, a change the
\* caller makes to other does not change the theme returned or attached
C6_ResultIndependent ==
    [][(/\ last.op \in {"add", "plot_add_theme"}
        /\ themes[last.rhs].complete
        /\ last'.op = "mutate"
        /\ last'.lhs = last.rhs)
       => themes'[ResultTheme] = themes[ResultTheme]]_vars

\* the chained operands and the sum (a + b) + c
ChainA == themes[1].themeables
ChainB == themes[2].themeables
ChainC == themes[3].themeables
ChainSum == themes[last.res].themeables

\* C7: the entries of (a + b) + c are a's keys in a's order, then the keys
\* new in b, then the keys new in c, each once; every field has the value of
\* the last operand that set it, and unset fields inherit
C7_ChainOrderLastWins ==
    steps = 2
    => /\ Names(ChainSum)
            = Names(ChainA) \o NewNames(ChainA, ChainB)
                \o NewNames(ChainA \o ChainB, ChainC)
       /\ \A i \in 1..Len(ChainSum), f \in Fields :
            ChainSum[i].props[f]
              = Later(Later(ValueOf(ChainA, ChainSum[i].name, f),
                            ValueOf(ChainB, ChainSum[i].name, f)),
                      ValueOf(ChainC, ChainSum[i].name, f))

C7_Witness ==
    /\ steps = 2
    /\ Len(ChainSum) = 3
    /\ NewNames(ChainA, ChainB) # <<>>
    /\ NewNames(ChainA \o ChainB, ChainC) # <<>>
    /\ \E k \in Keys, f \in Fields :
         /\ HasKey(ChainA, k) /\ HasKey(ChainB, k) /\ HasKey(ChainC, k)
         /\ ValueOf(ChainA, k, f) # Unset
         /\ ValueOf(ChainB, k, f) # Unset
         /\ ValueOf(ChainC, k, f) = Unset
         /\ ValueOf(ChainSum, k, f) = ValueOf(ChainB, k, f)

\* C8: theme_set(new) returns the theme theme_get() would have returned just
\* before (the builtin complete default when none was set) and makes new the
\* default; theme_get() with none set returns the builtin default; theme_set
\* with a non-theme fails and leaves the registry unchanged
C8_RegistryContract ==
    /\ last.op = "theme_set"
       => /\ current_theme = last.lhs
          /\ IF last.pre_cur # None THEN last.res = last.pre_cur
             ELSE last.res # None /\ themes[last.res] = theme_gray
    /\ (last.op = "theme_get" /\ last.pre_cur = None)
       => themes[last.res] = theme_gray
    /\ (last.op = "theme_get" /\ last.pre_cur # None)
       => last.res = last.pre_cur
    /\ last.op = "theme_set_invalid"
       => last.err = "GgplotError" /\ current_theme = last.pre_cur

\* the traversal of the nrow x ncol grid: rows reversed when not as_table,
\* then row-major for dir = 'h' and column-major for dir = 'v'
Traversal(f) ==
    LET rows == [r \in 1..f.nrow |->
                   [c \in 1..f.ncol |->
                      ((IF f.as_table THEN r ELSE f.nrow - r + 1) - 1) * f.ncol
                      + c]]
    IN  IF f.dir = "h"
        THEN [k \in 1..(f.nrow * f.ncol) |->
                rows[((k - 1) \div f.ncol) + 1][((k - 1) % f.ncol) + 1]]
        ELSE [k \in 1..(f.nrow * f.ncol) |->
                rows[((k - 1) % f.nrow) + 1][((k - 1) \div f.nrow) + 1]]

SeqRange(seq) == {seq[i] : i \in 1..Len(seq)}

\* C9: make_figure_and_axs requests nrow*ncol surfaces, binds the first n of
\* the traversal in its order and deletes exactly the others, whatever
\* as_table and dir are
C9_AllocateTraversal ==
    fcall.op = "make_figure_and_axs"
    => /\ fcall.err = "none"
       /\ figure.surfaces = 1..(facet.nrow * facet.ncol)
       /\ facet.axs = SubSeq(Traversal(facet), 1, fcall.num_panels)
       /\ figure.deleted = SubSeq(Traversal(facet), fcall.num_panels + 1,
                                  facet.nrow * facet.ncol)
       /\ SeqRange(facet.axs) \cap SeqRange(figure.deleted) = {}
       /\ SeqRange(facet.axs) \cup SeqRange(figure.deleted) = figure.surfaces

\* C10: strip_size(location, 0) is 0 for every theme, location and facet
C10_ZeroLinesZeroBreadth ==
    (fcall.op = "strip_size" /\ fcall.num_lines = 0) => fcall.ret = 0

\* C12: after make_figure_and_axs with at least one panel, first_ax and
\* last_ax are among the bound panel surfaces and not among the deleted ones
C12_LabelSurfacesBound ==
    (fcall.op = "make_figure_and_axs" /\ fcall.err = "none"
       /\ fcall.num_panels >= 1)
    => /\ facet.first_ax \in SeqRange(facet.axs)
       /\ facet.last_ax \in SeqRange(facet.axs)
       /\ facet.first_ax \notin SeqRange(figure.deleted)
       /\ facet.last_ax \notin SeqRange(figure.deleted)

\* the lookup of (name, field) in the facet's theme misses
Miss(name, field) == ~ property(facet.theme, name, field).found
\* the value the facet's theme registers for (name, field), else default
OrDefault(name, field, default) ==
    IF Miss(name, field) THEN default
    ELSE property(facet.theme, name, field).value
\* the renderer's base font size
BaseFont ==
    IF facet.theme.font_size # Absent THEN facet.theme.font_size ELSE 10

\* C11: no lookup miss fails set_breaks_and_labels, strip_size or
\* strip_dimensions, and each missed lookup is replaced by its default: tick
\* padding 2.4 pt, strip margins 3 pt and 3 pt, line spacing 1, the base font
\* size, strip margin shift 0, the box at its unadjusted position and size
C11_LookupMissAbsorbed ==
    /\ fcall.op \in {"set_breaks_and_labels", "strip_size", "strip_dimensions"}
       => fcall.err = "none"
    /\ fcall.op = "set_breaks_and_labels"
       => LET set == figure.ticks[facet.axs[fcall.pid + 1]]
          IN  /\ Miss("axis_text_x", "margin") => set.pad_x = (24 * PT) \div 10
              /\ Miss("axis_text_y", "margin") => set.pad_y = (24 * PT) \div 10
    /\ (fcall.op = "strip_size" /\ fcall.num_lines >= 1)
       => LET right == fcall.location = "right"
              name == IF right THEN "strip_text_y" ELSE "strip_text_x"
              m == OrDefault(name, "margin",
                             [t |-> 3, b |-> 3, l |-> 3, r |-> 3,
                              units |-> "pt"])
              m1 == get_as(m, IF right THEN "l" ELSE "t")
              m2 == get_as(m, IF right THEN "r" ELSE "b")
          IN  fcall.ret
                = OrDefault(name, "linespacing", 1)
                    * OrDefault(name, "size", BaseFont)
                    * fcall.num_lines * PT
                  + m1 + m2
    /\ (fcall.op = "strip_dimensions" /\ fcall.location = "top")
       => /\ Miss("strip_background_x", "x") => fcall.ret.box_x = Whole(0)
          /\ Miss("strip_background_x", "width")
             => fcall.ret.box_width = Whole(1)
          /\ Miss("strip_margin_x", "value") => fcall.ret.box_y = Whole(1)
    /\ (fcall.op = "strip_dimensions" /\ fcall.location = "right")
       => /\ Miss("strip_background_y", "y") => fcall.ret.box_y = Whole(0)
          /\ Miss("strip_background_y", "height")
             => fcall.ret.box_height = Whole(1)
          /\ Miss("strip_margin_y", "value") => fcall.ret.box_x = Whole(1)

C11_Witness ==
    /\ fcall.op = "strip_size"
    /\ fcall.num_lines >= 1
    /\ fcall.location = "top"
    /\ Miss("strip_text_x", "size")
    /\ Miss("strip_text_x", "linespacing")
    /\ Miss("strip_text_x", "margin")
    /\ fcall.ret = BaseFont * fcall.num_lines * PT + 6 * PT
    /\ \E a \in DOMAIN figure.ticks :
         /\ Miss("axis_text_x", "margin")
         /\ figure.ticks[a].pad_x = (24 * PT) \div 10

====
